---- MODULE Spec2Model ----
(***************************************************************************)
(* Model of trello-cli: the HTTP client of src/src/api.py and the          *)
(* interactive add_card workflow of src/src/cli.py.                        *)
(*                                                                         *)
(* Text typed by the user is a sequence of one-character strings, so that  *)
(* str.strip, len and ','.join are computed rather than assumed.  Keys of  *)
(* dictionaries, colours, ids and menu selections are TLA+ strings.        *)
(* The remote service and the user are the environment: every response     *)
(* and every typed line is a nondeterministic choice from a small set.     *)
(***************************************************************************)
EXTENDS Integers, Sequences, FiniteSets, TLC

VARIABLES
    environ,            \* os.environ once load_dotenv() has run
    API_KEY,            \* api.py:14
    TOKEN,              \* api.py:15
    pc,                 \* position of the program
    board_id,           \* cli.py:165
    list_id,            \* cli.py:171
    card_title,         \* cli.py:177
    card_desc,          \* cli.py:177
    label_choices,      \* cli.py:95, dictionary from str(i) to a label
    selected_label_ids, \* cli.py:96
    label_name,         \* cli.py:147, bound while create_new_label runs
    card,               \* cli.py:185
    calls,              \* API client calls made in the current iteration
    nreq,               \* requests.get / requests.post calls in this iteration
    last,               \* the HTTP exchange of the step just taken, if it made one
    board_choices,      \* cli.py:33, bound while select_board runs
    list_choices,       \* cli.py:58, bound while select_list runs
    console,            \* the error message the last step printed, "" if none
    answer,             \* the line typed at the menu or yes/no prompt of the last
                        \* step, None if the step read none
    exc                 \* exception being handled or propagated, None if none

vars == <<environ, API_KEY, TOKEN, pc, board_id, list_id, card_title, card_desc,
          label_choices, selected_label_ids, label_name, card,
          calls, nreq, last, board_choices, list_choices, console, answer,
          exc>>

(***************************************************************************)
(* Bounds of the model.                                                    *)
(***************************************************************************)
MaxTitleLen == 3    \* longest typed card title (besides "Test Card")
MaxSel == 2         \* most labels selected in one card
MaxItems == 1       \* most labels returned by get_labels

(***************************************************************************)
(* constants.py                                                            *)
(***************************************************************************)
TRELLO_API_BASE_URL == "https://api.trello.com/1"
VALID_COLORS == {"yellow", "purple", "blue", "red", "green", "orange",
                 "black", "sky", "pink", "lime", "null"}
MIN_CARD_TITLE_LENGTH == 3

None == "<None>"        \* Python's None

(***************************************************************************)
(* Text.                                                                   *)
(***************************************************************************)
Chars == {" ", "a"}

RECURSIVE Strings(_)
\* every text over Chars of length at most n
Strings(n) ==
    IF n = 0 THEN {<<>>}
    ELSE LET S == Strings(n - 1)
         IN  S \cup {Append(s, c) : s \in {t \in S : Len(t) = n - 1}, c \in Chars}

IsSpace(c) == c = " "

RECURSIVE LStrip(_)
LStrip(s) == IF s # <<>> /\ IsSpace(Head(s)) THEN LStrip(Tail(s)) ELSE s

RECURSIVE RStrip(_)
RStrip(s) ==
    IF s # <<>> /\ IsSpace(s[Len(s)]) THEN RStrip(SubSeq(s, 1, Len(s) - 1)) ELSE s

\* str.strip()
Strip(s) == RStrip(LStrip(s))

\* str.upper() on the one-character selections the user types
Upper(s) ==
    CASE s = "f" -> "F"
      [] s = "x" -> "X"
      [] OTHER -> s

RECURSIVE Join(_, _)
\* sep.join(items): the pieces of the resulting string
Join(sep, items) ==
    IF items = <<>> THEN <<>>
    ELSE IF Len(items) = 1 THEN <<items[1]>>
    ELSE <<items[1], sep>> \o Join(sep, Tail(items))

\* Python truthiness of an Optional[str]
Truthy(x) == x # None /\ x # ""

TestCard == <<"T", "e", "s", "t", " ", "C", "a", "r", "d">>

(***************************************************************************)
(* Dictionaries keyed by str(i).                                           *)
(***************************************************************************)
EmptyDict == [k \in {} |-> None]

\* {str(i): x for i, x in enumerate(items, start=1)}
Enumerate(items) ==
    [k \in {ToString(i) : i \in 1..Len(items)} |->
        items[CHOOSE i \in 1..Len(items) : ToString(i) = k]]

\* d[k] = v
DictSet(d, k, v) == [x \in DOMAIN d \cup {k} |-> IF x = k THEN v ELSE d[x]]

\* d.update(p)
Update(d, p) == [k \in DOMAIN d \cup DOMAIN p |-> IF k \in DOMAIN p THEN p[k] ELSE d[k]]

(***************************************************************************)
(* The remote service.                                                     *)
(***************************************************************************)
Statuses == {200, 201, 404, 500}

\* requests raised before any response arrived (requests.ConnectionError)
NoResponse == [connected |-> FALSE, status |-> 0, is_json |-> FALSE, json |-> None]

\* the responses the service can give when its JSON answers are in payloads
Responses(payloads) ==
    {NoResponse}
    \cup {[connected |-> TRUE, status |-> s, is_json |-> FALSE, json |-> None] : s \in Statuses}
    \cup {[connected |-> TRUE, status |-> s, is_json |-> TRUE, json |-> p] :
            s \in Statuses, p \in payloads}

B1 == [id |-> "b1", name |-> "Board 1"]
B2 == [id |-> "b2", name |-> "Board 2"]
BoardPayloads == {<<>>, <<B1>>, <<B1, B2>>}

T1 == [id |-> "t1", name |-> "To Do"]
ListPayloads == {<<>>, <<T1>>}

L1 == [id |-> "l1", name |-> "bug", color |-> "red"]
L2 == [id |-> "l2", name |-> "", color |-> None]
L3 == [id |-> "l3", name |-> "doc", color |-> "sky"]
AllLabels == <<L1, L2, L3>>
LabelPayloads == {SubSeq(AllLabels, 1, n) : n \in 0..MaxItems}

N1 == [id |-> "n1", name |-> "new", color |-> "blue"]
N2 == [id |-> "n2", name |-> "new", color |-> None]
NewLabelPayloads == {N1, N2}

K1 == [id |-> "c1", name |-> "Test Card"]
CardPayloads == {K1}

CommentPayloads == {[id |-> "a1", data |-> [text |-> "Test Comment"]]}

(***************************************************************************)
(* api.py                                                                  *)
(***************************************************************************)
\* response.raise_for_status(): raises HTTPError for 4xx and 5xx
RaiseForStatus(status) == 400 <= status /\ status < 600

\* Send that takes every status but 200 for an error
SendChecks200(request, resp) ==
    [requests |-> <<request>>,
     response |-> resp,
     exc |-> IF ~resp.connected THEN "ConnectionError"
             ELSE IF resp.status # 200 THEN "HTTPError"
             ELSE IF ~resp.is_json THEN "JSONDecodeError"
             ELSE None,
     ret |-> IF resp.connected /\ resp.status = 200 /\ resp.is_json
             THEN resp.json ELSE None]

\* Send that sends the request again when the first answer is an error
SendRetries(request, resp) ==
    [requests |-> IF resp.connected /\ 400 <= resp.status THEN <<request, request>>
                  ELSE <<request>>,
     response |-> resp,
     exc |-> IF ~resp.connected THEN "ConnectionError"
             ELSE IF 400 <= resp.status /\ resp.status < 600 THEN "HTTPError"
             ELSE IF ~resp.is_json THEN "JSONDecodeError"
             ELSE None,
     ret |-> IF resp.connected /\ ~(400 <= resp.status /\ resp.status < 600) /\ resp.is_json
             THEN resp.json ELSE None]

\* The part of trello_get and trello_post after the request was built:
\* send it once, raise for an error status, parse the body.
Send(request, resp) ==
    [requests |-> <<request>>,
     response |-> resp,
     exc |-> IF ~resp.connected THEN "ConnectionError"
             ELSE IF RaiseForStatus(resp.status) THEN "HTTPError"
             ELSE IF ~resp.is_json THEN "JSONDecodeError"
             ELSE None,
     ret |-> IF resp.connected /\ ~RaiseForStatus(resp.status) /\ resp.is_json
             THEN resp.json ELSE None]

DefaultParams == [key |-> API_KEY, token |-> TOKEN]

trello_get(endpoint, params, resp) ==
    Send([method |-> "GET",
          url |-> <<TRELLO_API_BASE_URL>> \o endpoint,
          params |-> IF DOMAIN params # {} THEN Update(DefaultParams, params)
                     ELSE DefaultParams],
         resp)

trello_post(endpoint, data, resp) ==
    Send([method |-> "POST",
          url |-> <<TRELLO_API_BASE_URL>> \o endpoint,
          params |-> IF DOMAIN data # {} THEN Update(DefaultParams, data)
                     ELSE DefaultParams],
         resp)

get_boards(resp) == trello_get(<<"members", "me", "boards">>, [fields |-> "name,id"], resp)

get_lists(b, resp) == trello_get(<<"boards", b, "lists">>, [fields |-> "name,id"], resp)

get_labels(b, resp) == trello_get(<<"boards", b, "labels">>, [fields |-> "name,color,id"], resp)

create_label(b, name, color, resp) ==
    trello_post(<<"labels">>, [name |-> name, color |-> color, idBoard |-> b], resp)

create_card(l, name, desc, label_ids, resp) ==
    LET data == [idList |-> l, name |-> name, desc |-> desc]
    IN  trello_post(<<"cards">>,
                    IF label_ids # <<>> THEN Update(data, [idLabels |-> label_ids]) ELSE data,
                    resp)

add_comment(card_id, text, resp) ==
    trello_post(<<"cards", card_id, "actions", "comments">>, [text |-> text], resp)

(***************************************************************************)
(* What the user can type.                                                 *)
(***************************************************************************)
TitleInputs == Strings(MaxTitleLen) \cup {TestCard}
DescInputs == {<<>>, <<"d">>}
NameInputs == {<<>>, <<" ">>, <<" ", "a">>}
ColorInputs == {"", "null", "magenta"}
IndexInputs == {"0", "1", "2", "x"}
SelectionInputs == {"", "F", "f", "0", "1", "2", "9", "x"}
CommentInputs == {<<>>, <<"c">>}

\* Prompt.ask and Confirm.ask read a line with input(): at the end of the
\* input they raise EOFError, on Ctrl-C KeyboardInterrupt.
PromptFailures == {"EOFError", "KeyboardInterrupt"}

ConfirmInputs == {"", "y", "n"}

\* the line Prompt.ask returns when the user types u and a default is given
WithDefault(u, default) == IF u = "" THEN default ELSE u

\* Confirm.ask that takes the empty line for yes
ConfirmIgnoresDefault(u, default) == u # "n"

\* the answer Confirm.ask returns when the user types u
Confirm(u, default) == IF u = "" THEN default ELSE u = "y"

(***************************************************************************)
(* Exceptions.                                                             *)
(***************************************************************************)
\* isinstance(e, requests.HTTPError)
IsHTTPError(e) == e = "HTTPError"

\* isinstance(e, Exception): KeyboardInterrupt derives from BaseException only
IsException(e) == e \in {"HTTPError", "ConnectionError", "JSONDecodeError", "EOFError"}

\* positions inside the try block at which the program waits for the user
BodyPrompts == {"prompt_board", "confirm_no_board", "prompt_list", "confirm_no_list",
                "prompt_title", "prompt_desc", "prompt_label", "prompt_label_name",
                "prompt_label_color", "confirm_comment", "prompt_comment",
                "confirm_another"}

Handlers == {"except_http", "except_other"}

NoExchange == [requests |-> <<>>, response |-> NoResponse]

(***************************************************************************)
(* State after the interpreter started and before api.py is imported.      *)
(***************************************************************************)
Init ==
    /\ environ \in [TRELLO_API_KEY : {None, "", "key"}, TRELLO_TOKEN : {None, "", "tok"}]
    /\ API_KEY = None
    /\ TOKEN = None
    /\ pc = "import"
    /\ board_id = None
    /\ list_id = None
    /\ card_title = <<>>
    /\ card_desc = <<>>
    /\ label_choices = EmptyDict
    /\ selected_label_ids = <<>>
    /\ label_name = <<>>
    /\ card = None
    /\ calls = <<>>
    /\ nreq = 0
    /\ last = NoExchange
    /\ board_choices = EmptyDict
    /\ list_choices = EmptyDict
    /\ console = ""
    /\ answer = None
    /\ exc = None

\* Every local of add_card and of the functions it calls is bound again
\* before it is read in an iteration, and none outlives add_card: the locals
\* and the record of the iteration's calls go back to the values of Init.
Rebind ==
    /\ board_id' = None
    /\ list_id' = None
    /\ card_title' = <<>>
    /\ card_desc' = <<>>
    /\ label_choices' = EmptyDict
    /\ selected_label_ids' = <<>>
    /\ label_name' = <<>>
    /\ card' = None
    /\ calls' = <<>>
    /\ nreq' = 0
    /\ last' = NoExchange
    /\ board_choices' = EmptyDict
    /\ list_choices' = EmptyDict
    /\ console' = ""

\* the while loop of add_card starts its next iteration
NewIteration ==
    /\ pc' = "select_board"
    /\ exc' = None
    /\ Rebind

\* break: add_card returns
Break ==
    /\ pc' = "done"
    /\ exc' = None
    /\ Rebind

\* the exception e leaves add_card
Propagate(e) ==
    /\ pc' = "propagated"
    /\ exc' = e
    /\ Rebind

\* The API client was called: op with args, and o is what it did.
Called(op, args, o) ==
    /\ calls' = Append(calls, [op |-> op, args |-> args, exc |-> o.exc, ret |-> o.ret])
    /\ nreq' = nreq + Len(o.requests)
    /\ last' = [requests |-> o.requests, response |-> o.response]

\* add_card without the "except Exception" clause
CaughtOnlyHTTPError(e) == IsHTTPError(e)

\* whether a handler of add_card catches e
Caught(e) == IsHTTPError(e) \/ IsException(e)

\* the locals of add_card and of the functions it calls
Locals == <<board_id, list_id, card_title, card_desc, label_choices, selected_label_ids,
            label_name, card, board_choices, list_choices>>

\* the exception e is caught by a handler of add_card, which prints it
Catch(e) ==
    /\ exc' = e
    /\ IF IsHTTPError(e)
       THEN pc' = "except_http" /\ console' = "HTTP error occurred"
       ELSE pc' = "except_other" /\ console' = "An error occurred"
    /\ UNCHANGED Locals

\* the API client call op(args) raised: o is what it did
CallRaised(op, args, o) ==
    IF Caught(o.exc) THEN Called(op, args, o) /\ Catch(o.exc) ELSE Propagate(o.exc)

(***************************************************************************)
(* api.py, module level                                                    *)
(***************************************************************************)
\* os.getenv(name): None when the variable is not set
Getenv(name) == environ[name]

\* the check with "and" for "or"
CredentialsMissingBoth(key, token) == ~Truthy(key) /\ ~Truthy(token)

\* not API_KEY or not TOKEN
CredentialsMissing(key, token) == ~Truthy(key) \/ ~Truthy(token)

Startup ==
    /\ pc = "import"
    /\ API_KEY' = Getenv("TRELLO_API_KEY")
    /\ TOKEN' = Getenv("TRELLO_TOKEN")
    /\ IF CredentialsMissing(API_KEY', TOKEN')
       THEN pc' = "exit" /\ console' = "Error: Ensure TRELLO_API_KEY and TRELLO_TOKEN are set"
       ELSE pc' = "select_board" /\ console' = ""
    /\ UNCHANGED <<environ, calls, nreq, last, answer, exc>>
    /\ UNCHANGED Locals

(***************************************************************************)
(* cli.py: select_board                                                    *)
(***************************************************************************)
SelectBoard ==
    /\ pc = "select_board"
    /\ answer' = None
    /\ \E resp \in Responses(BoardPayloads) :
         LET o == get_boards(resp)
             args == [none |-> None]
         IN  IF o.exc # None
             THEN CallRaised("get_boards", args, o)
             ELSE /\ Called("get_boards", args, o)
                  /\ IF o.ret = <<>>
                     THEN /\ pc' = "confirm_no_board"
                          /\ console' = "No boards were found."
                          /\ UNCHANGED board_choices
                     ELSE /\ pc' = "prompt_board"
                          /\ console' = ""
                          /\ board_choices' = Enumerate(o.ret)
                  /\ UNCHANGED <<board_id, list_id, card_title, card_desc, label_choices,
                                 selected_label_ids, label_name, card, list_choices, exc>>
    /\ UNCHANGED <<environ, API_KEY, TOKEN>>

PromptBoard ==
    /\ pc = "prompt_board"
    /\ \E u \in IndexInputs :
         /\ answer' = u
         /\ IF u \in DOMAIN board_choices
            THEN /\ board_id' = board_choices[u].id
                 /\ board_choices' = EmptyDict
                 /\ console' = ""
                 /\ pc' = IF Truthy(board_choices[u].id) THEN "select_list"
                           ELSE "confirm_no_board"
            ELSE /\ console' = "Please select one of the available options"
                 /\ UNCHANGED <<pc, board_id, board_choices>>
    /\ last' = NoExchange
    /\ UNCHANGED <<environ, API_KEY, TOKEN, list_id, card_title, card_desc, label_choices,
                   selected_label_ids, label_name, card, calls, nreq, list_choices, exc>>

ConfirmNoBoard ==
    /\ pc = "confirm_no_board"
    /\ \E u \in ConfirmInputs :
         /\ answer' = u
         /\ IF Confirm(u, TRUE) THEN NewIteration ELSE Break
    /\ UNCHANGED <<environ, API_KEY, TOKEN>>

(***************************************************************************)
(* cli.py: select_list                                                     *)
(***************************************************************************)
SelectList ==
    /\ pc = "select_list"
    /\ answer' = None
    /\ \E resp \in Responses(ListPayloads) :
         LET o == get_lists(board_id, resp)
             args == [board_id |-> board_id]
         IN  IF o.exc # None
             THEN CallRaised("get_lists", args, o)
             ELSE /\ Called("get_lists", args, o)
                  /\ IF o.ret = <<>>
                     THEN /\ pc' = "confirm_no_list"
                          /\ console' = "No columns found in this board."
                          /\ UNCHANGED list_choices
                     ELSE /\ pc' = "prompt_list"
                          /\ console' = ""
                          /\ list_choices' = Enumerate(o.ret)
                  /\ UNCHANGED <<board_id, list_id, card_title, card_desc, label_choices,
                                 selected_label_ids, label_name, card, board_choices, exc>>
    /\ UNCHANGED <<environ, API_KEY, TOKEN>>

PromptList ==
    /\ pc = "prompt_list"
    /\ \E u \in IndexInputs :
         /\ answer' = u
         /\ IF u \in DOMAIN list_choices
            THEN /\ list_id' = list_choices[u].id
                 /\ list_choices' = EmptyDict
                 /\ console' = ""
                 /\ pc' = IF Truthy(list_choices[u].id) THEN "prompt_title"
                           ELSE "confirm_no_list"
            ELSE /\ console' = "Please select one of the available options"
                 /\ UNCHANGED <<pc, list_id, list_choices>>
    /\ last' = NoExchange
    /\ UNCHANGED <<environ, API_KEY, TOKEN, board_id, card_title, card_desc, label_choices,
                   selected_label_ids, label_name, card, calls, nreq, board_choices, exc>>

\* add_card without the continue after "No list selected"
ConfirmNoListFallsThrough ==
    /\ pc = "confirm_no_list"
    /\ \E u \in ConfirmInputs :
         /\ answer' = u
         /\ IF Confirm(u, TRUE)
            THEN /\ pc' = "prompt_title"
                 /\ console' = ""
                 /\ last' = NoExchange
                 /\ UNCHANGED <<calls, nreq, exc>>
                 /\ UNCHANGED Locals
            ELSE Break
    /\ UNCHANGED <<environ, API_KEY, TOKEN>>

ConfirmNoList ==
    /\ pc = "confirm_no_list"
    /\ \E u \in ConfirmInputs :
         /\ answer' = u
         /\ IF Confirm(u, TRUE) THEN NewIteration ELSE Break
    /\ UNCHANGED <<environ, API_KEY, TOKEN>>

(***************************************************************************)
(* cli.py: get_card_details                                                *)
(***************************************************************************)
\* the loop condition with the limit off by one
TitleTooShortOffByOne(title) == Len(Strip(title)) < MIN_CARD_TITLE_LENGTH - 1

\* the condition of the while loop
TitleTooShort(title) == Len(Strip(title)) < MIN_CARD_TITLE_LENGTH

PromptTitle ==
    /\ pc = "prompt_title"
    /\ answer' = None
    /\ \E u \in TitleInputs :
         /\ card_title' = u
         /\ IF TitleTooShort(u)
            THEN /\ console' = "Card title must be at least 3 characters long."
                 /\ UNCHANGED pc
            ELSE /\ pc' = "prompt_desc"
                 /\ console' = ""
    /\ last' = NoExchange
    /\ UNCHANGED <<environ, API_KEY, TOKEN, board_id, list_id, card_desc, label_choices,
                   selected_label_ids, label_name, card, calls, nreq, board_choices,
                   list_choices, exc>>

PromptDesc ==
    /\ pc = "prompt_desc"
    /\ answer' = None
    /\ \E u \in DescInputs :
         /\ card_desc' = u
         /\ pc' = "select_labels"
    /\ console' = ""
    /\ last' = NoExchange
    /\ UNCHANGED <<environ, API_KEY, TOKEN, board_id, list_id, card_title, label_choices,
                   selected_label_ids, label_name, card, calls, nreq, board_choices,
                   list_choices, exc>>

(***************************************************************************)
(* cli.py: select_labels and create_new_label                              *)
(***************************************************************************)
SelectLabels ==
    /\ pc = "select_labels"
    /\ answer' = None
    /\ \E resp \in Responses(LabelPayloads) :
         LET o == get_labels(board_id, resp)
             args == [board_id |-> board_id]
         IN  IF o.exc # None
             THEN CallRaised("get_labels", args, o)
             ELSE /\ Called("get_labels", args, o)
                  /\ label_choices' = Enumerate(o.ret)
                  /\ selected_label_ids' = <<>>
                  /\ pc' = "prompt_label"
                  /\ console' = ""
                  /\ UNCHANGED <<board_id, list_id, card_title, card_desc, label_name,
                                 card, board_choices, list_choices, exc>>
    /\ UNCHANGED <<environ, API_KEY, TOKEN>>

\* label_selection.upper() == 'F'
IsFinish(selection) == Upper(selection) = "F"

\* the key of the last label instead of the next free one
NextKeyOffByOne(choices) == ToString(Cardinality(DOMAIN choices))

\* the key under which a newly created label becomes selectable
NextKey(choices) == ToString(Cardinality(DOMAIN choices) + 1)

PromptLabel ==
    /\ pc = "prompt_label"
    /\ \E u \in SelectionInputs :
         LET label_selection == WithDefault(u, "F")
         IN  /\ answer' = u
             /\ IF IsFinish(label_selection)
                THEN /\ pc' = "create_card"
                     /\ console' = ""
                     /\ UNCHANGED selected_label_ids
                ELSE IF label_selection = "0"
                THEN /\ Len(selected_label_ids) < MaxSel
                     /\ pc' = "prompt_label_name"
                     /\ console' = ""
                     /\ UNCHANGED selected_label_ids
                ELSE IF label_selection \in DOMAIN label_choices
                THEN /\ Len(selected_label_ids) < MaxSel
                     /\ selected_label_ids' =
                           Append(selected_label_ids, label_choices[label_selection].id)
                     /\ console' = ""
                     /\ UNCHANGED pc
                ELSE /\ console' = "Invalid selection"
                     /\ UNCHANGED <<pc, selected_label_ids>>
    /\ last' = NoExchange
    /\ UNCHANGED <<environ, API_KEY, TOKEN, board_id, list_id, card_title, card_desc,
                   label_choices, label_name, card, calls, nreq, board_choices,
                   list_choices, exc>>

\* the condition of the while loop of create_new_label
NameEmpty(name) == Strip(name) = <<>>

PromptLabelName ==
    /\ pc = "prompt_label_name"
    /\ answer' = None
    /\ \E u \in NameInputs :
         /\ label_name' = u
         /\ IF NameEmpty(u)
            THEN /\ console' = "Label name cannot be empty."
                 /\ UNCHANGED pc
            ELSE /\ pc' = "prompt_label_color"
                 /\ console' = ""
    /\ last' = NoExchange
    /\ UNCHANGED <<environ, API_KEY, TOKEN, board_id, list_id, card_title, card_desc,
                   label_choices, selected_label_ids, card, calls, nreq, board_choices,
                   list_choices, exc>>

\* a colour prompt without choices
ColorAcceptedAny(color) == TRUE

\* Prompt.ask(choices=VALID_COLORS) returns only a member of the choices
ColorAccepted(color) == color \in VALID_COLORS

\* the colour create_new_label passes to create_label
ColorSent(color) == IF color = "null" THEN None ELSE color

\* the colour prompt and, once a colour is accepted, the create_label call
PromptLabelColor ==
    /\ pc = "prompt_label_color"
    /\ \E u \in ColorInputs :
         LET label_color == WithDefault(u, "blue")
         IN  /\ answer' = u
             /\ IF ~ColorAccepted(label_color)
                THEN /\ console' = "Please select one of the available options"
                     /\ last' = NoExchange
                     /\ UNCHANGED <<pc, calls, nreq, exc>>
                     /\ UNCHANGED Locals
                ELSE \E resp \in Responses(NewLabelPayloads) :
                       LET color == ColorSent(label_color)
                           o == create_label(board_id, label_name, color, resp)
                           args == [board_id |-> board_id, name |-> label_name,
                                    color |-> color]
                       IN  IF o.exc # None
                           THEN CallRaised("create_label", args, o)
                           ELSE /\ Called("create_label", args, o)
                                /\ selected_label_ids' =
                                      Append(selected_label_ids, o.ret.id)
                                /\ label_choices' =
                                      DictSet(label_choices, NextKey(label_choices), o.ret)
                                /\ label_name' = <<>>
                                /\ pc' = "prompt_label"
                                /\ console' = ""
                                /\ UNCHANGED <<board_id, list_id, card_title, card_desc,
                                               card, board_choices, list_choices, exc>>
    /\ UNCHANGED <<environ, API_KEY, TOKEN>>

(***************************************************************************)
(* cli.py: add_card, from the creation of the card on                      *)
(***************************************************************************)
CreateCard ==
    /\ pc = "create_card"
    /\ answer' = None
    /\ \E resp \in Responses(CardPayloads) :
         LET label_ids == Join(",", selected_label_ids)
             o == create_card(list_id, card_title, card_desc, label_ids, resp)
             args == [list_id |-> list_id, name |-> card_title, desc |-> card_desc,
                      label_ids |-> label_ids]
         IN  IF o.exc # None
             THEN CallRaised("create_card", args, o)
             ELSE /\ Called("create_card", args, o)
                  /\ card' = o.ret
                  /\ pc' = "confirm_comment"
                  /\ console' = ""
                  /\ UNCHANGED <<board_id, list_id, card_title, card_desc, label_choices,
                                 selected_label_ids, label_name, board_choices,
                                 list_choices, exc>>
    /\ UNCHANGED <<environ, API_KEY, TOKEN>>

ConfirmComment ==
    /\ pc = "confirm_comment"
    /\ \E u \in ConfirmInputs :
         /\ answer' = u
         /\ pc' = IF Confirm(u, FALSE) THEN "prompt_comment" ELSE "confirm_another"
    /\ console' = ""
    /\ last' = NoExchange
    /\ UNCHANGED <<environ, API_KEY, TOKEN, calls, nreq, exc>>
    /\ UNCHANGED Locals

\* a card id that is not the id of the card just created
CardIdOfName(c) == c.name

\* card['id']
CardId(c) == c.id

\* the comment prompt and the add_comment call
PromptComment ==
    /\ pc = "prompt_comment"
    /\ answer' = None
    /\ \E comment_text \in CommentInputs, resp \in Responses(CommentPayloads) :
         LET o == add_comment(CardId(card), comment_text, resp)
             args == [card_id |-> CardId(card), text |-> comment_text]
         IN  IF o.exc # None
             THEN CallRaised("add_comment", args, o)
             ELSE /\ Called("add_comment", args, o)
                  /\ pc' = "confirm_another"
                  /\ console' = ""
                  /\ UNCHANGED exc
                  /\ UNCHANGED Locals
    /\ UNCHANGED <<environ, API_KEY, TOKEN>>

ConfirmAnother ==
    /\ pc = "confirm_another"
    /\ \E u \in ConfirmInputs :
         /\ answer' = u
         /\ IF Confirm(u, FALSE) THEN NewIteration ELSE Break
    /\ UNCHANGED <<environ, API_KEY, TOKEN>>

\* a prompt inside the try block raises instead of returning a line
PromptInterrupted ==
    /\ pc \in BodyPrompts
    /\ answer' = None
    /\ \E e \in PromptFailures :
         IF Caught(e)
         THEN Catch(e) /\ last' = NoExchange /\ UNCHANGED <<calls, nreq>>
         ELSE Propagate(e)
    /\ UNCHANGED <<environ, API_KEY, TOKEN>>

\* except requests.HTTPError
ExceptHTTPError ==
    /\ pc = "except_http"
    /\ \E u \in ConfirmInputs :
         /\ answer' = u
         /\ IF Confirm(u, TRUE) THEN NewIteration ELSE Break
    /\ UNCHANGED <<environ, API_KEY, TOKEN>>

\* except Exception
ExceptException ==
    /\ pc = "except_other"
    /\ \E u \in ConfirmInputs :
         /\ answer' = u
         /\ IF Confirm(u, TRUE) THEN NewIteration ELSE Break
    /\ UNCHANGED <<environ, API_KEY, TOKEN>>

\* Confirm.ask inside a handler raises: no try statement encloses the handlers
HandlerInterrupted ==
    /\ pc \in Handlers
    /\ answer' = None
    /\ \E e \in PromptFailures : Propagate(e)
    /\ UNCHANGED <<environ, API_KEY, TOKEN>>

Next ==
    \/ Startup
    \/ SelectBoard
    \/ PromptBoard
    \/ ConfirmNoBoard
    \/ SelectList
    \/ PromptList
    \/ ConfirmNoList
    \/ PromptTitle
    \/ PromptDesc
    \/ SelectLabels
    \/ PromptLabel
    \/ PromptLabelName
    \/ PromptLabelColor
    \/ CreateCard
    \/ ConfirmComment
    \/ PromptComment
    \/ ConfirmAnother
    \/ PromptInterrupted
    \/ ExceptHTTPError
    \/ ExceptException
    \/ HandlerInterrupted

Spec == Init /\ [][Next]_vars

(***************************************************************************)
(* Properties.                                                             *)
(***************************************************************************)
\* the positions in calls of the calls of op
CallsOf(op) == {i \in 1..Len(calls) : calls[i].op = op}

\* the ids of a list of boards, lists or labels
Ids(items) == {items[i].id : i \in 1..Len(items)}

\* C1: in every iteration of add_card the API client is called in the order
\* get_boards, get_lists, get_labels, create_label (any number), create_card,
\* add_comment; create_card is called at most once and only with a board and
\* a list selected in this iteration from what get_boards and get_lists
\* returned; add_comment is called at most once, only right after a
\* create_card that returned, and with the id of the card it returned.
C1_CallOrder ==
    /\ \A i \in 1..Len(calls) :
          /\ (i = 1) <=> (calls[i].op = "get_boards")
          /\ (i = 2) <=> (calls[i].op = "get_lists")
          /\ (i = 3) <=> (calls[i].op = "get_labels")
          /\ calls[i].op = "create_label" =>
                calls[i - 1].op \in {"get_labels", "create_label"}
          /\ calls[i].op = "create_card" =>
                /\ calls[i - 1].op \in {"get_labels", "create_label"}
                /\ calls[1].exc = None /\ calls[2].exc = None
                /\ calls[2].args.board_id \in Ids(calls[1].ret)
                /\ calls[i].args.list_id \in Ids(calls[2].ret)
          /\ calls[i].op = "add_comment" =>
                /\ calls[i - 1].op = "create_card"
                /\ calls[i - 1].exc = None
                /\ calls[i].args.card_id = calls[i - 1].ret.id
    /\ Cardinality(CallsOf("create_card")) <= 1
    /\ Cardinality(CallsOf("add_comment")) <= 1

\* an iteration that created a label and a card and commented on the card
C1_Witness ==
    /\ CallsOf("create_label") # {}
    /\ \E i \in CallsOf("add_comment") : calls[i].exc = None

\* C3: get_card_details asks for the title again while the stripped title is
\* shorter than MIN_CARD_TITLE_LENGTH, so the title it returns and the name
\* of every card sent to create_card have at least that length, stripped or
\* not.
C3_TitleMinLength ==
    /\ pc = "prompt_title" => Len(Strip(card_title)) < MIN_CARD_TITLE_LENGTH
    /\ pc = "prompt_desc" =>
          /\ Len(Strip(card_title)) >= MIN_CARD_TITLE_LENGTH
          /\ Len(card_title) >= MIN_CARD_TITLE_LENGTH
    /\ \A i \in CallsOf("create_card") :
          /\ Len(Strip(calls[i].args.name)) >= MIN_CARD_TITLE_LENGTH
          /\ Len(calls[i].args.name) >= MIN_CARD_TITLE_LENGTH

\* a card of exactly the minimum length was sent to create_card
C3_Witness ==
    \E i \in CallsOf("create_card") : Len(calls[i].args.name) = MIN_CARD_TITLE_LENGTH

\* the colours create_label may be given: None stands for no colour
SendableColors == (VALID_COLORS \ {"null"}) \cup {None}

\* C4: every create_label call carries a name that is not empty once
\* stripped and a colour of the enumerated set or None for the choice
\* 'null', in its arguments and in the form data of the request.
C4_LabelValid ==
    /\ \A i \in CallsOf("create_label") :
          /\ Strip(calls[i].args.name) # <<>>
          /\ calls[i].args.color \in SendableColors
    /\ \A k \in 1..Len(last.requests) :
          last.requests[k].url = <<TRELLO_API_BASE_URL, "labels">> =>
            /\ Strip(last.requests[k].params.name) # <<>>
            /\ last.requests[k].params.color \in SendableColors

\* a label without colour whose name has surrounding whitespace was created
C4_Witness ==
    \E i \in CallsOf("create_label") :
        /\ calls[i].args.color = None
        /\ calls[i].args.name # Strip(calls[i].args.name)
        /\ calls[i].exc = None

\* the API client call of the step just taken
LastCall == calls[Len(calls)]

\* C6: when the response has a 2xx status and a JSON body, the wrapper
\* returns that parsed body unchanged, whatever the payload.
C6_PayloadUnchanged ==
    last.requests # <<>> =>
      LET r == last.response
      IN  (r.connected /\ 200 <= r.status /\ r.status < 300 /\ r.is_json) =>
            /\ LastCall.exc = None
            /\ LastCall.ret = r.json

\* create_card returned the card of a 201 response
C6_Witness ==
    /\ last.requests # <<>>
    /\ last.response.status = 201
    /\ last.response.is_json
    /\ LastCall.op = "create_card"
    /\ card = last.response.json

C8_Credentials ==
    /\ pc # "import" =>
          /\ API_KEY = environ.TRELLO_API_KEY
          /\ TOKEN = environ.TRELLO_TOKEN
          /\ (pc = "exit") <=>
                (~Truthy(environ.TRELLO_API_KEY) \/ ~Truthy(environ.TRELLO_TOKEN))
    /\ nreq > 0 => Truthy(environ.TRELLO_API_KEY) /\ Truthy(environ.TRELLO_TOKEN)
    /\ \A k \in 1..Len(last.requests) :
          /\ Truthy(last.requests[k].params.key)
          /\ Truthy(last.requests[k].params.token)
          /\ last.requests[k].params.key = environ.TRELLO_API_KEY
          /\ last.requests[k].params.token = environ.TRELLO_TOKEN

\* a POST to cards went out with the key and the token of the environment
C8_Witness ==
    /\ last.requests # <<>>
    /\ last.requests[1].method = "POST"
    /\ last.requests[1].url = <<TRELLO_API_BASE_URL, "cards">>
    /\ last.requests[1].params.key = "key"
    /\ last.requests[1].params.token = "tok"

\* the lines with which the user says no, and yes, when the default is d
Declines(d) == IF d THEN {"n"} ELSE {"n", ""}
Accepts(d) == IF d THEN {"y", ""} ELSE {"y"}

\* the iteration of C5 so far: one board, one list, the title "Test Card"
\* and label selection finished with nothing selected
C5_Scenario ==
    /\ Len(calls) >= 3
    /\ \A i \in 1..3 : calls[i].exc = None
    /\ Len(calls[1].ret) = 1
    /\ Len(calls[2].ret) = 1
    /\ board_id = calls[1].ret[1].id
    /\ list_id = calls[2].ret[1].id
    /\ card_title = TestCard
    /\ selected_label_ids = <<>>

\* C5: with one board and one list returned and picked, the title
\* "Test Card" and no label selected, the card creation call carries the id
\* of that list, exactly that title and no label id, in its arguments and
\* in the request; and when the user then declines to comment, the
\* iteration ends with exactly that one create_card call and no add_comment
\* call.
C5_EndToEnd ==
    [][/\ (pc = "create_card" /\ C5_Scenario) =>
            /\ Len(calls') = 4
            /\ calls'[4].op = "create_card"
            /\ calls'[4].args.list_id = calls[2].ret[1].id
            /\ calls'[4].args.name = TestCard
            /\ calls'[4].args.label_ids = <<>>
            /\ Len(last'.requests) = 1
            /\ last'.requests[1].method = "POST"
            /\ last'.requests[1].url = <<TRELLO_API_BASE_URL, "cards">>
            /\ last'.requests[1].params.idList = calls[2].ret[1].id
            /\ last'.requests[1].params.name = TestCard
            /\ "idLabels" \in DOMAIN last'.requests[1].params =>
                  last'.requests[1].params.idLabels = <<>>
       /\ (pc = "confirm_comment" /\ C5_Scenario /\ answer' \in Declines(FALSE)) =>
            /\ pc' = "confirm_another"
            /\ calls' = calls
            /\ nreq' = 4
            /\ CallsOf("create_card") = {4}
            /\ CallsOf("add_comment") = {}]_vars

\* the iteration of C5 at its end, the comment declined with the empty line
C5_Witness ==
    /\ pc = "confirm_another"
    /\ C5_Scenario
    /\ answer = ""
    /\ Len(calls) = 4
    /\ calls[4].exc = None

\* the labels select_labels can offer: those get_labels returned, then
\* those create_label returned, in the order of the calls
RECURSIVE Created(_)
Created(n) ==
    IF n <= 3 THEN <<>>
    ELSE IF calls[n].op = "create_label" /\ calls[n].exc = None
    THEN Append(Created(n - 1), calls[n].ret)
    ELSE Created(n - 1)

Selectable == calls[3].ret \o Created(Len(calls))

\* the positions of select_labels and create_new_label
InSelectLabels == {"prompt_label", "prompt_label_name", "prompt_label_color"}

\* C9: in select_labels the labels on offer are, under the keys "1", "2",
\* ..., those get_labels returned followed by those create_label returned
\* in this loop, and every selected id is the id of one of them; choosing
\* the key of a label appends its id, choosing "0" creates a label, appends
\* its id and offers it under the next free key, "F", "f" or the empty
\* line ends the loop, and any other line changes neither the selected ids
\* nor the labels on offer.
C9_SelectLabels ==
    [][/\ pc' \in InSelectLabels \cup {"create_card"} =>
            /\ DOMAIN label_choices' = {ToString(i) : i \in 1..Len(Selectable')}
            /\ \A i \in 1..Len(Selectable') :
                  label_choices'[ToString(i)] = Selectable'[i]
            /\ \A k \in 1..Len(selected_label_ids') :
                  selected_label_ids'[k] \in Ids(Selectable')
       /\ (pc = "prompt_label" /\ answer' # None) =>
            /\ label_choices' = label_choices
            /\ IF answer' \in {"", "F", "f"}
               THEN pc' = "create_card" /\ selected_label_ids' = selected_label_ids
               ELSE IF answer' = "0"
               THEN pc' = "prompt_label_name" /\ selected_label_ids' = selected_label_ids
               ELSE IF \E i \in 1..Len(Selectable) : answer' = ToString(i)
               THEN /\ pc' = "prompt_label"
                    /\ \E i \in 1..Len(Selectable) :
                         /\ answer' = ToString(i)
                         /\ selected_label_ids' =
                               Append(selected_label_ids, Selectable[i].id)
               ELSE pc' = "prompt_label" /\ selected_label_ids' = selected_label_ids
       /\ (pc = "prompt_label_color" /\ pc' = "prompt_label") =>
            /\ selected_label_ids' =
                  Append(selected_label_ids, last'.response.json.id)
            /\ Selectable' = Append(Selectable, last'.response.json)
            /\ ToString(Len(Selectable')) \notin DOMAIN label_choices]_vars

\* a label was created and then selected again under its new key
C9_Witness ==
    /\ pc = "prompt_label"
    /\ Cardinality(CallsOf("create_label")) = 1
    /\ Len(calls[3].ret) = 1
    /\ selected_label_ids = <<"n1", "n1">>
    /\ answer = "2"

\* C10: a get_boards or get_lists call that returns an empty list is the
\* last API call of its iteration and takes the program to the question
\* whether to try again; "n" there ends add_card, "y" or the empty line
\* starts a new iteration at board selection.
C10_NothingToSelect ==
    [][/\ \A i \in 1..Len(calls') :
            (i <= 2 /\ calls'[i].exc = None /\ calls'[i].ret = <<>>) =>
              /\ i = Len(calls')
              /\ pc' \in {IF i = 1 THEN "confirm_no_board" ELSE "confirm_no_list",
                           "except_other"}
       /\ (pc \in {"confirm_no_board", "confirm_no_list"} /\ answer' # None) =>
            IF answer' \in Declines(TRUE)
            THEN pc' = "done"
            ELSE /\ answer' \in Accepts(TRUE)
                 /\ pc' = "select_board"
                 /\ calls' = <<>>
                 /\ nreq' = 0]_vars

\* get_lists returned no list and the user is asked whether to try again
C10_Witness ==
    /\ pc = "confirm_no_list"
    /\ Len(calls) = 2
    /\ calls[2].exc = None
    /\ calls[2].ret = <<>>

\* the exceptions that derive from Exception
Exceptions == {"HTTPError", "ConnectionError", "JSONDecodeError", "EOFError"}

\* What C2 says of a call or a prompt that raises inside the try block, and
\* of the question the handlers ask: the failed call is the last call of its
\* iteration, the matching handler has printed the error and asks whether
\* to try again, "n" ends add_card, and "y" or the empty line starts a new
\* iteration at board selection.
C2_Handled ==
    /\ \A i \in 1..Len(calls') :
          calls'[i].exc # None => (i = Len(calls') /\ pc' \in Handlers)
    /\ (exc' # None /\ pc' # "propagated") =>
          /\ exc' \in Exceptions
          /\ pc' = IF exc' = "HTTPError" THEN "except_http" ELSE "except_other"
          /\ console' = IF exc' = "HTTPError" THEN "HTTP error occurred"
                        ELSE "An error occurred"
    /\ pc' \in Handlers => exc' # None
    /\ (pc \in Handlers /\ pc' \notin Handlers) => (calls' = <<>> /\ nreq' = 0)
    /\ (pc \in Handlers /\ answer' # None) =>
          IF answer' \in Declines(TRUE)
          THEN pc' = "done"
          ELSE answer' \in Accepts(TRUE) /\ pc' = "select_board"

\* C2 as stated: an exception raised inside an iteration is handled as
\* C2_Handled says, and no exception escapes add_card.
C2_NoExceptionEscapes == [][C2_Handled /\ pc' # "propagated"]_vars

\* C2, amended: an Exception raised by a call or a prompt inside the try
\* block is handled as C2_Handled says; an exception leaves add_card only
\* when it is a KeyboardInterrupt raised at a prompt inside the try block
\* or an EOFError or KeyboardInterrupt raised by the question of a handler.
C2_HandledOrPropagated ==
    [][/\ C2_Handled
       /\ pc' = "propagated" =>
            /\ exc' \in PromptFailures
            /\ pc \in Handlers \/ (pc \in BodyPrompts /\ exc' \notin Exceptions)]_vars

\* create_card raised a ConnectionError and the handler asks whether to try again
C2_Witness ==
    /\ pc = "except_other"
    /\ exc = "ConnectionError"
    /\ console = "An error occurred"
    /\ Len(calls) = 4
    /\ calls[4].exc = "ConnectionError"

====
